---------------------------- MODULE Spec2Model ----------------------------
(***************************************************************************)
(* Model of the intent / slot extraction pipeline of the fishing forecast  *)
(* bot (src/src/intent_analyzer.py, src/src/morph_analyzer.py), of its     *)
(* location resolver (src/src/location_resolver.py), of its country memo   *)
(* (src/src/geoip.py) and of its message handlers                          *)
(* (src/src/bot_handlers.py).                                              *)
(*                                                                         *)
(* A text is a sequence of characters.  A character is a short string: a   *)
(* Cyrillic letter is written by its transliteration, one atom per letter  *)
(*   а a  б b  в v  г g  д d  е e  ё yo  ж zh  з z  и i  й j  к k  л l     *)
(*   м m  н n  о o  п p  р r  с s  т t  у u  ф f  х h  ц c  ч ch  ш sh     *)
(*   щ sch  ъ hard  ы y  ь soft  э eh  ю yu  я ya                          *)
(* and the upper-case letter by the capitalised atom (А A, Ж Zh, ...).     *)
(* Digits, the space and the punctuation marks stand for themselves.  A    *)
(* Latin letter is written with a trailing underscore (l l_, L L_), so     *)
(* that "Lida" and "Лида" are different texts.                             *)
(***************************************************************************)
EXTENDS Integers, Sequences, FiniteSets, TLC

VARIABLES pc, text, nfrag, result,
          api, rpc, location_query, hints, requests, response, resolved,
          token, outputs, analyzer,
          user_country_cache, lookups, last_call, manual,
          user_context, now, handled

\* the variables of the normalizer (MorphAnalyzer)
morphVars == <<token, outputs, analyzer>>

\* the variables of the country memo (GeoIPService)
geoipVars == <<user_country_cache, lookups, last_call, manual>>

\* the variables of the message handlers (FishingForecastBot)
botVars == <<user_context, now, handled>>

\* the variables the analysis of a message and the resolver leave alone
others == <<morphVars, geoipVars, botVars>>

vars == <<pc, text, nfrag, result,
          api, rpc, location_query, hints, requests, response, resolved,
          token, outputs, analyzer,
          user_country_cache, lookups, last_call, manual,
          user_context, now, handled>>

-----------------------------------------------------------------------------
(* Characters and the str methods of Python the code uses.                 *)

\* the pairs <<lower-case letter, upper-case letter>> of the Russian alphabet
Alphabet ==
    { <<"a","A">>, <<"b","B">>, <<"v","V">>, <<"g","G">>, <<"d","D">>,
      <<"e","E">>, <<"yo","Yo">>, <<"zh","Zh">>, <<"z","Z">>, <<"i","I">>,
      <<"j","J">>, <<"k","K">>, <<"l","L">>, <<"m","M">>, <<"n","N">>,
      <<"o","O">>, <<"p","P">>, <<"r","R">>, <<"s","S">>, <<"t","T">>,
      <<"u","U">>, <<"f","F">>, <<"h","H">>, <<"c","C">>, <<"ch","Ch">>,
      <<"sh","Sh">>, <<"sch","Sch">>, <<"hard","Hard">>, <<"y","Y">>,
      <<"soft","Soft">>, <<"eh","Eh">>, <<"yu","Yu">>, <<"ya","Ya">> }

LowerLetters == { p[1] : p \in Alphabet }
UpperLetters == { p[2] : p \in Alphabet }

\* the pairs <<lower-case letter, upper-case letter>> of the Latin alphabet
LatinAlphabet ==
    { <<"a_","A_">>, <<"b_","B_">>, <<"c_","C_">>, <<"d_","D_">>, <<"e_","E_">>,
      <<"f_","F_">>, <<"g_","G_">>, <<"h_","H_">>, <<"i_","I_">>, <<"j_","J_">>,
      <<"k_","K_">>, <<"l_","L_">>, <<"m_","M_">>, <<"n_","N_">>, <<"o_","O_">>,
      <<"p_","P_">>, <<"q_","Q_">>, <<"r_","R_">>, <<"s_","S_">>, <<"t_","T_">>,
      <<"u_","U_">>, <<"v_","V_">>, <<"w_","W_">>, <<"x_","X_">>, <<"y_","Y_">>,
      <<"z_","Z_">> }
LatinLower == { p[1] : p \in LatinAlphabet }
LatinUpper == { p[2] : p \in LatinAlphabet }
\* the cased letters of both alphabets
CasedLower == LowerLetters \cup LatinLower
CasedUpper == UpperLetters \cup LatinUpper
Digits == { "0", "1", "2", "3", "4", "5", "6", "7", "8", "9" }
Whitespace == { " " }
\* every character a text of the model can hold ('.' of a regex: no newline)
AnyChar == CasedLower \cup CasedUpper \cup Digits \cup Whitespace
             \cup { ",", ".", "!", "?", ";", ":", "-" }

\* str.isupper() of one character
IsUpper(c) == c \in CasedUpper

\* str.lower() / str.upper() of one character
ToLower ==
    [c \in CasedUpper |->
       (CHOOSE p \in Alphabet \cup LatinAlphabet : p[2] = c)[1]]
ToUpper ==
    [c \in CasedLower |->
       (CHOOSE p \in Alphabet \cup LatinAlphabet : p[1] = c)[2]]
LowerChar(c) == IF c \in CasedUpper THEN ToLower[c] ELSE c
UpperChar(c) == IF c \in CasedLower THEN ToUpper[c] ELSE c

\* str.lower()
Lower(s) == [i \in 1..Len(s) |-> LowerChar(s[i])]

\* str.capitalize(): first character upper-cased, the rest lower-cased
Capitalize(s) ==
    [i \in 1..Len(s) |-> IF i = 1 THEN UpperChar(s[i]) ELSE LowerChar(s[i])]

\* sub in s
Contains(s, sub) ==
    \E i \in 1..(Len(s) - Len(sub) + 1) : SubSeq(s, i, i + Len(sub) - 1) = sub

\* str.strip(chars)
Strip(s, chars) ==
    LET keep == { i \in 1..Len(s) : s[i] \notin chars }
        lo == CHOOSE i \in keep : \A k \in keep : i <= k
        hi == CHOOSE i \in keep : \A k \in keep : i >= k
    IN IF keep = {} THEN <<>> ELSE SubSeq(s, lo, hi)

\* str.split(): the maximal runs of non-whitespace characters, in order
RECURSIVE SplitFrom(_, _)
SplitFrom(s, i) ==
    IF i > Len(s) THEN <<>>
    ELSE IF s[i] \in Whitespace THEN SplitFrom(s, i + 1)
    ELSE LET stops == { k \in i..Len(s) : s[k] \in Whitespace }
             e == IF stops = {} THEN Len(s) + 1
                  ELSE CHOOSE k \in stops : \A m \in stops : k <= m
         IN <<SubSeq(s, i, e - 1)>> \o SplitFrom(s, e)
Split(s) == SplitFrom(s, 1)

\* ' '.join(words)
RECURSIVE Join(_)
Join(words) ==
    IF words = <<>> THEN <<>>
    ELSE IF Len(words) = 1 THEN words[1]
    ELSE words[1] \o <<" ">> \o Join(Tail(words))

\* int(digits), for a non-empty run of decimal digits
DigitValue(c) ==
    CASE c = "0" -> 0 [] c = "1" -> 1 [] c = "2" -> 2 [] c = "3" -> 3
      [] c = "4" -> 4 [] c = "5" -> 5 [] c = "6" -> 6 [] c = "7" -> 7
      [] c = "8" -> 8 [] c = "9" -> 9
RECURSIVE ParseInt(_)
ParseInt(s) ==
    IF s = <<>> THEN 0
    ELSE 10 * ParseInt(SubSeq(s, 1, Len(s) - 1)) + DigitValue(s[Len(s)])

\* min(a, b)
Min(a, b) == IF a <= b THEN a ELSE b

\* None where a string is expected (a text is a sequence, so None is one too)
None == <<"None">>
\* None where an intent or a period name is expected
Undetermined == "None"

\* len(word) <= 2, days = 7 of a week, min(..., 10)
MaxShort == 2
WeekDays == 7
MaxDays == 10

-----------------------------------------------------------------------------
(* Regular expressions (re.search).  A pattern is a sequence of atoms; an  *)
(* atom is a character class with a quantifier: "1" (exactly one), "?",    *)
(* "+" or "*" (greedy).                                                    *)

One(cls)  == [cls |-> cls, q |-> "1"]
Opt(cls)  == [cls |-> cls, q |-> "?"]
Plus(cls) == [cls |-> cls, q |-> "+"]
Star(cls) == [cls |-> cls, q |-> "*"]
\* (?:sub)* : a group repeated zero or more times
GroupStar(sub) == [sub |-> sub, q |-> "g*"]

\* a literal string as a pattern
Lit(s) == [i \in 1..Len(s) |-> One({s[i]})]
\* '.*'
DotStar == <<Star(AnyChar)>>

\* re.IGNORECASE: the same letter in the other case (lower(c) or upper(c),
\* whichever is not c itself); a character without case is left alone
SwapCase ==
    [c \in AnyChar |-> IF c \in CasedUpper THEN ToLower[c]
                       ELSE IF c \in CasedLower THEN ToUpper[c]
                       ELSE c]

\* does character c belong to the class, with or without re.IGNORECASE
InClass(c, cls, ic) ==
    \/ c \in cls
    \/ ic /\ SwapCase[c] \in cls

\* the positions reached from the positions P by consuming one character of cls
StepClass(s, cls, ic, P) ==
    { p + 1 : p \in { x \in P : x <= Len(s) /\ InClass(s[x], cls, ic) } }

\* ... by consuming one or more characters of cls
RECURSIVE RunClass(_, _, _, _)
RunClass(s, cls, ic, P) ==
    LET N == StepClass(s, cls, ic, P)
    IN IF N = {} THEN {} ELSE N \cup RunClass(s, cls, ic, N \ P)

\* the positions at which a match of pat[k..] that starts at a position of P ends
RECURSIVE MatchEnds(_, _, _, _, _)
RECURSIVE RunGroup(_, _, _, _)
\* ... by one or more repetitions of the pattern sub
RunGroup(s, sub, ic, P) ==
    LET N == MatchEnds(s, sub, 1, ic, P) \ P
    IN IF N = {} THEN {} ELSE N \cup RunGroup(s, sub, ic, N)
MatchEnds(s, pat, k, ic, P) ==
    IF P = {} \/ k > Len(pat) THEN P
    ELSE LET a == pat[k]
             Q == CASE a.q = "1" -> StepClass(s, a.cls, ic, P)
                    [] a.q = "?" -> P \cup StepClass(s, a.cls, ic, P)
                    [] a.q = "+" -> RunClass(s, a.cls, ic, P)
                    [] a.q = "*" -> P \cup RunClass(s, a.cls, ic, P)
                    [] a.q = "g*" -> P \cup RunGroup(s, a.sub, ic, P)
         IN MatchEnds(s, pat, k + 1, ic, Q)

\* re.search(pat, s) is not None
Search(s, pat, ic) == MatchEnds(s, pat, 1, ic, 1..(Len(s) + 1)) # {}

\* the least element of a set of positions, 0 for the empty set
MinOrZero(S) == IF S = {} THEN 0 ELSE CHOOSE i \in S : \A k \in S : i <= k

\* the start of the match re.search returns (the leftmost one), 0 when none
SearchStart(s, pat, ic) ==
    MinOrZero({ i \in 1..(Len(s) + 1) : MatchEnds(s, pat, 1, ic, {i}) # {} })

SetMax(S) == CHOOSE x \in S : \A y \in S : x >= y

\* where the group starts in the match of pre (grp) suf that starts at start,
\* and where the group that starts at g ends: the quantifiers are greedy
GroupStart(s, pre, grp, suf, ic, start) ==
    SetMax({ g \in MatchEnds(s, pre, 1, ic, {start}) :
               MatchEnds(s, grp \o suf, 1, ic, {g}) # {} })
GroupEnd(s, grp, suf, ic, g) ==
    SetMax({ h \in MatchEnds(s, grp, 1, ic, {g}) :
               MatchEnds(s, suf, 1, ic, {h}) # {} })
GroupSpan(s, grp, suf, ic, g) == SubSeq(s, g, GroupEnd(s, grp, suf, ic, g) - 1)

\* group(1) of the match of pre (grp) suf that starts at position start
GroupAt(s, pre, grp, suf, ic, start) ==
    GroupSpan(s, grp, suf, ic, GroupStart(s, pre, grp, suf, ic, start))

\* group(1) of the match that starts at start; None when start = 0 (no match)
GroupOrNone(s, pre, grp, suf, ic, start) ==
    IF start = 0 THEN None ELSE GroupAt(s, pre, grp, suf, ic, start)

\* re.search(pre (grp) suf, s).group(1): the text of the group in the leftmost
\* match; None when there is no match
SearchGroup(s, pre, grp, suf, ic) ==
    GroupOrNone(s, pre, grp, suf, ic, SearchStart(s, pre \o grp \o suf, ic))

-----------------------------------------------------------------------------
(* MorphAnalyzer (src/src/morph_analyzer.py)                               *)

\* (variant: the analyzer gives a stem, the word without its last letter)
NormalForm_Stem(word) ==
    LET w == Lower(word)
    IN IF Len(w) > 4 THEN SubSeq(w, 1, Len(w) - 1) ELSE w

\* pymorphy3: parse(word)[0].normal_form, the lower-case dictionary form.
\* The dictionary is given for the inflected forms the texts of the model
\* use; any other word is its own normal form, a normal form included.
NormalForm(word) ==
    LET w == Lower(word)
    IN CASE w = <<"m","i","n","s","k","e">> -> <<"m","i","n","s","k">>  \* Минске -> минск
         [] w = <<"l","i","d","e">> -> <<"l","i","d","a">>  \* Лиде -> лида
         [] w = <<"b","a","j","k","a","l","e">> -> <<"b","a","j","k","a","l">>  \* Байкале -> байкал
         [] OTHER -> w

\* (variant: the normal form as the analyzer gives it, in lower case)
WithNormalForm_NoCapital(word, normal_form) ==
    IF Lower(normal_form) # Lower(word) THEN normal_form ELSE word

\* the word in its normal form, the capital letter of the word kept
WithNormalForm(word, normal_form) ==
    IF Lower(normal_form) # Lower(word)
    THEN IF IsUpper(word[1]) THEN Capitalize(normal_form) ELSE normal_form
    ELSE word

\* MorphAnalyzer.to_nominative
to_nominative(word) == WithNormalForm(word, NormalForm(word))

-----------------------------------------------------------------------------
(* IntentAnalyzer (src/src/intent_analyzer.py)                             *)

\* self.patterns['weather']
patterns_weather ==
    <<
      Lit(<<"p","o","g","o","d">>) \o <<One({"a","u","e"})>>,  \* погод[ауе]
      Lit(<<"t","e","m","p","e","r","a","t","u","r">>) \o <<One({"a","u"})>>,  \* температур[ау]
      Lit(<<"d","a","v","l","e","n","i">>) \o <<One({"e","ya"})>>,  \* давлени[ея]
      Lit(<<"v","e","t","e","r">>),  \* ветер
      Lit(<<"v","l","a","zh","n","o","s","t">>) \o <<One({"soft","i"})>>,  \* влажност[ьи]
      Lit(<<"o","s","a","d","k">>) \o <<One({"i","o"})>>,  \* осадк[ио]
      Lit(<<"o","b","l","a","ch","n","o","s","t">>) \o <<One({"soft","i"})>>,  \* облачност[ьи]
      Lit(<<"s","o","l","n">>) \o <<One({"e","c"})>>,  \* солн[еце]
      Lit(<<"d","o","zh","d">>) \o <<One({"soft","ya"})>>,  \* дожд[ья]
      Lit(<<"s","n","e","g">>),  \* снег
      Lit(<<"t","u","m","a","n">>)   \* туман
    >>

\* self.patterns['fishing_forecast']
patterns_fishing_forecast ==
    <<
      Lit(<<"k","l","e","v">>) \o <<Opt({"a","u"})>>,  \* клев[ау]?
      Lit(<<"k","l","yu","e","t">>),  \* клюет
      Lit(<<"l","o","v","i","t","s","ya">>),  \* ловится
      Lit(<<"r","y","b">>) \o <<One({"a","u","y"})>>,  \* рыб[ауы]
      Lit(<<"p","r","o","g","n","o","z">>) \o DotStar \o Lit(<<"k","l","e","v">>),  \* прогноз.*клев
      Lit(<<"k","l","e","v">>) \o DotStar \o Lit(<<"p","r","o","g","n","o","z">>),  \* клев.*прогноз
      Lit(<<"m","i","r","n">>) \o <<One({"a","o","j"})>>,  \* мирн[аой]
      Lit(<<"h","i","sch","n">>) \o <<One({"a","o","j"})>> \o <<Opt({"k"})>>,  \* хищн[аой][к]?
      Lit(<<"p","o","j","m","a","t">>) \o <<One({"soft","s","ya"})>>,  \* поймат[ься]
      Lit(<<"b","u","d","e","t">>) \o DotStar \o Lit(<<"r","y","b","a">>),  \* будет.*рыба
      Lit(<<"r","y","b","a">>) \o DotStar \o Lit(<<"b","u","d","e","t">>),  \* рыба.*будет
      Lit(<<"l","o","v","i","t","soft">>) \o DotStar \o Lit(<<"z","a","v","t","r","a">>),  \* ловить.*завтра
      Lit(<<"k","a","k">>) \o DotStar \o Lit(<<"k","l","yu","e","t">>),  \* как.*клюет
      Lit(<<"ch","t","o">>) \o DotStar \o Lit(<<"p","o">>) \o DotStar \o Lit(<<"r","y","b","e">>),  \* что.*по.*рыбе
      Lit(<<"k","a","k","o","j">>) \o DotStar \o Lit(<<"k","l","e","v">>)   \* какой.*клев
    >>

\* [А-ЯЁ] and [а-яё\-]
CapitalClass == UpperLetters
SmallClass == LowerLetters \cup {"-"}

\* [А-ЯЁ][а-яё\-]+(?:\s+[А-ЯЁ][а-яё\-]+)* : a span of capitalised words
CapitalSpan ==
    <<One(CapitalClass), Plus(SmallClass),
      GroupStar(<<Plus(Whitespace), One(CapitalClass), Plus(SmallClass)>>)>>

\* self.patterns['location']: each template as <<before, group, after>>
patterns_location ==
    << <<Lit(<<"v">>) \o <<Plus(Whitespace)>>, CapitalSpan, <<>> >>,  \* в\s+(...)    "в Москве"
       <<Lit(<<"n","a">>) \o <<Plus(Whitespace)>>, CapitalSpan, <<>> >>,  \* на\s+(...)   "на Байкале"
       <<Lit(<<"d","l","ya">>) \o <<Plus(Whitespace)>>, CapitalSpan, <<>> >>,  \* для\s+(...)  "для Лиды"
       <<<<>>, CapitalSpan, <<Plus(Whitespace)>> \o Lit(<<"r","a","j","o","n">>)>> >>  \* (...)\s+район "Лидский район"

\* remove_words of _extract_location
remove_words ==
    {
      <<"k","a","k","a","ya">>,  \* какая
      <<"k","a","k","o","j">>,  \* какой
      <<"k","a","k","o","e">>,  \* какое
      <<"k","a","k","i","e">>,  \* какие
      <<"s","k","a","zh","i">>,  \* скажи
      <<"p","o","d","s","k","a","zh","i">>,  \* подскажи
      <<"p","o","k","a","zh","i">>,  \* покажи
      <<"r","a","s","s","k","a","zh","i">>,  \* расскажи
      <<"p","o","g","o","d","a">>,  \* погода
      <<"p","o","g","o","d","u">>,  \* погоду
      <<"p","o","g","o","d","k","a">>,  \* погодка
      <<"p","o","g","o","d","k","u">>,  \* погодку
      <<"b","u","d","e","t">>,  \* будет
      <<"e","s","t","soft">>,  \* есть
      <<"d","a","j">>,  \* дай
      <<"d","a","j","t","e">>,  \* дайте
      <<"h","o","ch","u">>,  \* хочу
      <<"n","u","zh","n","o">>,  \* нужно
      <<"n","a","d","o">>,  \* надо
      <<"m","o","zh","n","o">>,  \* можно
      <<"p","o","s","m","o","t","r","i">>,  \* посмотри
      <<"p","o","zh","a","l","u","j","s","t","a">>,  \* пожалуйста
      <<"a">>,  \* а
      <<"i">>,  \* и
      <<"i","l","i">>,  \* или
      <<"n","o">>,  \* но
      <<"ch","t","o">>,  \* что
      <<"k","a","k">>,  \* как
      <<"g","d","e">>,  \* где
      <<"k","o","g","d","a">>,  \* когда
      <<"z","a","ch","e","m">>,  \* зачем
      <<"p","o","ch","e","m","u">>,  \* почему
      <<"s","k","o","l","soft","k","o">>   \* сколько
    }

\* end_words of _extract_location
end_words ==
    {
      <<"n","a">>,  \* на
      <<"v">>,  \* в
      <<"d","l","ya">>,  \* для
      <<"p","o">>,  \* по
      <<"u">>,  \* у
      <<"s">>,  \* с
      <<"z","a">>,  \* за
      <<"i","z">>,  \* из
      <<"o","t">>,  \* от
      <<"d","o">>   \* до
    }

\* the characters of word.strip(' ,.!?;:')
StripChars == { " ", ",", ".", "!", "?", ";", ":" }

\* IntentAnalyzer._contains_any
_contains_any(t, patterns) ==
    \E i \in 1..Len(patterns) : Search(t, patterns[i], TRUE)

\* (variant: no stop-word is skipped)
KeepWord_NoStopWords(word) == Len(word) >= 0

\* the loop over text.split(): the words kept, stripped of punctuation
KeepWord(word) == Lower(Strip(word, StripChars)) \notin remove_words
StripAll(words) == [i \in 1..Len(words) |-> Strip(words[i], StripChars)]
result_words(t) == StripAll(SelectSeq(Split(t), KeepWord))

\* "Убираем на, в и т.д. в конце": a last word of end_words is dropped
DropEndWord(joined, ws) ==
    IF (IF ws # <<>> THEN Lower(ws[Len(ws)]) ELSE <<>>) \in end_words
    THEN Join(SubSeq(ws, 1, Len(ws) - 1))
    ELSE joined
SplitAndDrop(joined) == DropEndWord(joined, Split(joined))

\* cleaned_text, after a last word of end_words is dropped
cleaned_text(t) == SplitAndDrop(Join(result_words(t)))

final_words(t) == Split(cleaned_text(t))

\* "Если осталось одно слово": the single word left, when it is capitalised
SingleWord(fw) ==
    IF Len(fw) = 1 /\ fw[1] # <<>> /\ IsUpper(fw[1][1])
    THEN to_nominative(fw[1])
    ELSE None
SingleWordStep(t) == SingleWord(final_words(t))

\* re.search(r'в\s+([А-ЯЁ][а-яё\-]+)', cleaned_text, re.IGNORECASE)
PrepositionMatch(t) ==
    SearchGroup(cleaned_text(t), Lit(<<"v">>) \o <<Plus(Whitespace)>>,
                <<One(CapitalClass), Plus(SmallClass)>>, <<>>, TRUE)

\* "Ищем паттерн в [город]": the captured word, unless it is a stop-word
AcceptCapture(location) ==
    IF location # None /\ Lower(location) \notin remove_words
    THEN to_nominative(location)
    ELSE None
PrepositionStep(t) == AcceptCapture(PrepositionMatch(t))

\* (variant: the test len(word) <= 2 left out)
ScanAccepts_NoLength(word) == word # <<>> /\ IsUpper(word[1])

\* the test of the scan loop on one word
ScanAccepts(word) ==
    /\ word # <<>>
    /\ IsUpper(word[1])
    /\ ~ (Len(word) <= MaxShort
          \/ Lower(word) \in {<<"a","h">>, <<"o","h">>, <<"eh","h">>, <<"u","h">>})

\* "Ищем просто слово с заглавной": the first word the scan accepts
FirstScanned(fw, ok) ==
    IF ok = {} THEN None
    ELSE to_nominative(fw[CHOOSE i \in ok : \A k \in ok : i <= k])
ScanWords(fw) == FirstScanned(fw, { i \in 1..Len(fw) : ScanAccepts(fw[i]) })
ScanStep(t) == ScanWords(final_words(t))

\* the first step that gives a location decides
FirstCandidate(words, single, preposition, scan) ==
    IF words = <<>> THEN None
    ELSE IF single # None THEN single
    ELSE IF preposition # None THEN preposition
    ELSE scan

\* IntentAnalyzer._extract_location
_extract_location(t) ==
    FirstCandidate(result_words(t), SingleWordStep(t), PrepositionStep(t),
                   ScanStep(t))

\* r'на\s+ближайшие?\s+(\d+)\s+дн[еяя]' and r'на\s+(\d+)\s+дн[еяя]'
DaysSuffix == <<Plus(Whitespace)>> \o Lit(<<"d","n">>) \o <<One({"e","ya"})>>
days_match(t) ==
    SearchGroup(t, Lit(<<"n","a">>) \o <<Plus(Whitespace)>> \o Lit(<<"b","l","i","zh","a","j","sh","i">>) \o <<Opt({"e"})>> \o <<Plus(Whitespace)>>,
                <<Plus(Digits)>>, DaysSuffix, FALSE)
days_match2(t) ==
    SearchGroup(t, Lit(<<"n","a">>) \o <<Plus(Whitespace)>>, <<Plus(Digits)>>, DaysSuffix, FALSE)

\* the if / elif chain over the time markers
MarkerPeriod(t) ==
    IF Contains(t, <<"z","a","v","t","r","a">>)
    THEN [period |-> "tomorrow", days |-> 1]
    ELSE IF Contains(t, <<"p","o","s","l","e","z","a","v","t","r","a">>)
    THEN [period |-> "day_after_tomorrow", days |-> 2]
    ELSE IF Contains(t, <<"n","e","d","e","l">>)
    THEN [period |-> "week", days |-> WeekDays]
    ELSE IF Contains(t, <<"v","y","h","o","d","n">>)
    THEN [period |-> "weekend", days |-> 2]
    ELSE [period |-> "today", days |-> 1]

\* f'{days}_days'
DaysPeriod(days) == ToString(days) \o "_days"

\* (variant: the maximum of 10 days left out)
ClampDays_NoMax(digits) == ParseInt(digits)

\* min(int(group), 10)
ClampDays(digits) == Min(ParseInt(digits), MaxDays)

\* result['days'] = min(int(group), 10); result['period'] = f'{days}_days'
DaysResult(days) == [period |-> DaysPeriod(days), days |-> days]

\* the two day-count searches, in the order of the code: the later one wins
WithDayCount(marker, m1, m2) ==
    IF m2 # None THEN DaysResult(ClampDays(m2))
    ELSE IF m1 # None THEN DaysResult(ClampDays(m1))
    ELSE marker

\* IntentAnalyzer._extract_time_period
_extract_time_period(t) ==
    WithDayCount(MarkerPeriod(t), days_match(t), days_match2(t))

\* (variant: the weather lexicon tested first)
LexiconIntent_WeatherFirst(text_lower) ==
    IF _contains_any(text_lower, patterns_weather) THEN "weather"
    ELSE IF _contains_any(text_lower, patterns_fishing_forecast) THEN "fishing_forecast"
    ELSE Undetermined

\* the if / elif over the two lexicons: the intent, None when undetermined
LexiconIntent(text_lower) ==
    IF _contains_any(text_lower, patterns_fishing_forecast) THEN "fishing_forecast"
    ELSE IF _contains_any(text_lower, patterns_weather) THEN "weather"
    ELSE Undetermined

\* (variant: the final default to general_question left out)
DefaultIntent_NoGeneral(intent, location) ==
    IF intent = Undetermined /\ location # None /\ location # <<>> THEN "weather"
    ELSE intent

\* (variant: the default to weather for a bare location left out)
DefaultIntent_NoWeather(intent, location) ==
    IF intent = Undetermined THEN "general_question" ELSE intent

\* the two defaults of analyze: weather with a location, else general_question
DefaultIntent(intent, location) ==
    IF intent = Undetermined /\ location # None /\ location # <<>> THEN "weather"
    ELSE IF intent = Undetermined THEN "general_question"
    ELSE intent

\* the result record of analyze
AnalysisResult(intent, location, time_info, is_question) ==
    [ intent |-> DefaultIntent(intent, location),
      location |-> location,
      time_period |-> time_info.period,
      days |-> time_info.days,
      is_question |-> is_question ]

\* '?' in text_lower
IsQuestion(text_lower) == \E i \in 1..Len(text_lower) : text_lower[i] = "?"

\* analyze, given text and text_lower = text.lower()
AnalyzeLower(t, text_lower) ==
    AnalysisResult(LexiconIntent(text_lower), _extract_location(t),
                   _extract_time_period(text_lower), IsQuestion(text_lower))

\* IntentAnalyzer.analyze
analyze(t) == AnalyzeLower(t, Lower(t))

-----------------------------------------------------------------------------
(* LocationResolver (src/src/location_resolver.py)                         *)

\* None where a dict is expected
NoLocation == [none |-> TRUE]

\* the country codes of country_hints and of the city tables
CountryBY == <<"B_","Y_">>
CountryRU == <<"R_","U_">>
CountryUA == <<"U_","A_">>
CountryLT == <<"L_","T_">>
CountryLV == <<"L_","V_">>
CountryPL == <<"P_","L_">>
CountryEE == <<"E_","E_">>
CountryMD == <<"M_","D_">>
CountryKZ == <<"K_","Z_">>

\* dict lookups: key in table, table[key]; a table is a set of <<key, value>>
InTable(table, key) == \E p \in table : p[1] = key
TableGet(table, key) == (CHOOSE p \in table : p[1] = key)[2]

\* stop_words_start and stop_words_end of _clean_location_query
stop_words_start ==
    { <<"v">>, <<"n","a">>, <<"d","l","ya">>, <<"o","k","o","l","o">>, <<"v","o","z","l","e">>, <<"r","ya","d","o","m">>,
      <<"p","o">>, <<"u">>, <<"s">> }
stop_words_end ==
    { <<"n","a">>, <<"v">>, <<"d","l","ya">>, <<"p","o">>, <<"u">>, <<"s">> }

\* "Если первое слово - предлог, убираем его": words[1:]
DropStartWord(words) ==
    IF words # <<>> /\ Lower(words[1]) \in stop_words_start
    THEN Tail(words)
    ELSE words
\* "Убираем предлоги в конце": words[:-1]
DropStopEnd(words) ==
    IF words # <<>> /\ Lower(words[Len(words)]) \in stop_words_end
    THEN SubSeq(words, 1, Len(words) - 1)
    ELSE words
\* if not words: return query, else ' '.join(words)
JoinOrQuery(query, words) == IF words = <<>> THEN query ELSE Join(words)
CleanStripped(query) == JoinOrQuery(query, DropStopEnd(DropStartWord(Split(query))))

\* LocationResolver._clean_location_query
_clean_location_query(query) == CleanStripped(Strip(query, Whitespace))

\* popular_with_country of resolve_location
popular_with_country ==
    { <<<<"l","i","d","a">>, CountryBY>>, <<<<"g","r","o","d","n","o">>, CountryBY>>, <<<<"m","i","n","s","k">>, CountryBY>>,
      <<<<"m","o","s","k","v","a">>, CountryRU>>, <<<<"s","a","n","k","t","-","p","e","t","e","r","b","u","r","g">>, CountryRU>>,
      <<<<"k","i","e","v">>, CountryUA>>, <<<<"v","i","l","soft","n","yu","s">>, CountryLT>> }

\* "Для популярных городов добавляем страны": the hint the request is built with
HintFor(query_lower, country_hint) ==
    IF InTable(popular_with_country, query_lower) /\ country_hint = None
    THEN TableGet(popular_with_country, query_lower)
    ELSE country_hint
EffectiveHint(clean_query, country_hint) == HintFor(Lower(clean_query), country_hint)

\* search_query: f"{clean_query},{country_hint}" or clean_query
search_query(clean_query, country_hint) ==
    IF country_hint # None THEN clean_query \o <<",">> \o country_hint
    ELSE clean_query

\* result.get('name', '') and local_names.get('ru', ''): a missing key is None
GetOrEmpty(v) == IF v = None THEN <<>> ELSE v

\* LocationResolver._get_location_type
_get_location_type(item) ==
    IF Contains(Lower(GetOrEmpty(item.state)), <<"r","a","j","o","n">>) THEN "district"
    ELSE IF \E word \in { <<"c_","i_","t_","y_">>, <<"t_","o_","w_","n_">>, <<"v_","i_","l_","l_","a_","g_","e_">> } :
              Contains(Lower(GetOrEmpty(item.name)), word)
    THEN "settlement"
    ELSE "unknown"

\* (variant: lat and lon exchanged)
_format_location_result_Swapped(item) ==
    [ name |-> GetOrEmpty(item.name),
      local_name |-> IF item.ru # None THEN item.ru
                     ELSE GetOrEmpty(item.name),
      lat |-> item.lon,
      lon |-> item.lat,
      country |-> GetOrEmpty(item.country),
      state |-> GetOrEmpty(item.state),
      type |-> _get_location_type(item) ]

\* LocationResolver._format_location_result
_format_location_result(item) ==
    [ name |-> GetOrEmpty(item.name),
      local_name |-> IF item.ru # None THEN item.ru
                     ELSE GetOrEmpty(item.name),
      lat |-> item.lat,
      lon |-> item.lon,
      country |-> GetOrEmpty(item.country),
      state |-> GetOrEmpty(item.state),
      type |-> _get_location_type(item) ]

\* "Проверяем похожесть": the test of _find_best_match on one candidate
IsSimilar(original_lower, ru_name, en_name) ==
    \/ Contains(ru_name, original_lower)
    \/ Contains(en_name, original_lower)
    \/ Contains(original_lower, ru_name)
    \/ Contains(original_lower, en_name)
Similar(original_lower, item) ==
    IsSimilar(original_lower, Lower(GetOrEmpty(item.ru)),
              Lower(GetOrEmpty(item.name)))

\* the first result of the loop that passes the test, else the first result
FirstSimilar(results, hits) ==
    IF hits # {} THEN _format_location_result(results[MinOrZero(hits)])
    ELSE IF results # <<>> THEN _format_location_result(results[1])
    ELSE NoLocation
SimilarIn(results, original_lower) ==
    { i \in 1..Len(results) : Similar(original_lower, results[i]) }

\* LocationResolver._find_best_match
_find_best_match(results, original_query) ==
    FirstSimilar(results, SimilarIn(results, Lower(original_query)))

\* what a call does next: return a value, or send the request without country
Returns(value) == [retry |-> FALSE, value |-> value]
Retries == [retry |-> TRUE, value |-> NoLocation]

\* if best_match: return best_match; "Если не нашли, пробуем без страны"
MatchOrRetry(best_match, country_hint) ==
    IF best_match # NoLocation THEN Returns(best_match)
    ELSE IF country_hint # None THEN Retries
    ELSE Returns(NoLocation)

\* (variant: an empty list gives a location of default values)
AfterResponse_NoEmptyTest(response1, clean_query, country_hint) ==
    IF response1.kind # "ok" THEN Returns(NoLocation)
    ELSE IF response1.data = <<>>
    THEN Returns([ name |-> <<>>, local_name |-> <<>>, lat |-> 0, lon |-> 0,
                   country |-> <<>>, state |-> <<>>, type |-> "unknown" ])
    ELSE MatchOrRetry(_find_best_match(response1.data, clean_query),
                      country_hint)

\* resolve_location from the answer to its first request on: an exception
\* (network error, payload that is no list of objects) and a status other
\* than 200 give None, and so does an empty list
AfterResponse(response1, clean_query, country_hint) ==
    IF response1.kind # "ok" THEN Returns(NoLocation)
    ELSE IF response1.data = <<>> THEN Returns(NoLocation)
    ELSE MatchOrRetry(_find_best_match(response1.data, clean_query),
                      country_hint)

\* ... and from the answer to the request without country on
AfterResponse2(response2, clean_query) ==
    IF response2.kind = "ok" /\ response2.data # <<>>
    THEN _find_best_match(response2.data, clean_query)
    ELSE NoLocation

\* country_words of resolve_with_country_hints
country_words ==
    { <<"b","e","l","a","r","u","s","soft">>, <<"b","e","l","o","r","u","s","s","i","ya">>, <<"r","o","s","s","i","ya">>, <<"u","k","r","a","i","n","a">>,
      <<"p","o","l","soft","sh","a">>, <<"l","i","t","v","a">>, <<"l","a","t","v","i","ya">>, <<"eh","s","t","o","n","i","ya">>,
      <<"k","a","z","a","h","s","t","a","n">> }

\* "Убираем названия стран из запроса"
NotCountryWord(w) == Lower(w) \notin country_words
JoinFiltered(clean_query, filtered_words) ==
    IF filtered_words # <<>> THEN Join(filtered_words) ELSE clean_query
WithoutCountries(clean_query) ==
    JoinFiltered(clean_query, SelectSeq(Split(clean_query), NotCountryWord))
\* clean_query of resolve_with_country_hints
HintsQuery(query) == WithoutCountries(_clean_location_query(query))

\* popular_cities of resolve_with_country_hints
popular_cities ==
    { <<<<"l","i","d","a">>, CountryBY>>, <<<<"g","r","o","d","n","o">>, CountryBY>>, <<<<"m","i","n","s","k">>, CountryBY>>,
      <<<<"b","r","e","s","t">>, CountryBY>>, <<<<"g","o","m","e","l","soft">>, CountryBY>>, <<<<"v","i","t","e","b","s","k">>, CountryBY>>,
      <<<<"m","o","g","i","l","e","v">>, CountryBY>>, <<<<"m","o","s","k","v","a">>, CountryRU>>,
      <<<<"s","a","n","k","t","-","p","e","t","e","r","b","u","r","g">>, CountryRU>>, <<<<"s","o","ch","i">>, CountryRU>>, <<<<"k","i","e","v">>, CountryUA>>,
      <<<<"l","soft","v","o","v">>, CountryUA>>, <<<<"o","d","e","s","s","a">>, CountryUA>>, <<<<"v","i","l","soft","n","yu","s">>, CountryLT>>,
      <<<<"k","a","u","n","a","s">>, CountryLT>>, <<<<"k","l","a","j","p","e","d","a">>, CountryLT>> }

\* (variant: Russia tried before Belarus)
country_hints_RUFirst == <<CountryRU, CountryBY, CountryUA, CountryLT, CountryLV, CountryPL, CountryEE, CountryMD, CountryKZ>>

\* "Пробуем страны по порядку"
country_hints == <<CountryBY, CountryRU, CountryUA, CountryLT, CountryLV, CountryPL, CountryEE, CountryMD, CountryKZ>>

\* the country_hint arguments of the calls of resolve_location that
\* resolve_with_country_hints makes while every call returns None: the
\* country of a popular city, the country_hints, and None for the last call
PopularFirst(city_lower) ==
    IF InTable(popular_cities, city_lower)
    THEN <<TableGet(popular_cities, city_lower)>>
    ELSE <<>>
HintSequence(clean_query) ==
    PopularFirst(Lower(clean_query)) \o country_hints \o <<None>>

\* the state of the resolver before any call, and before any answer
NoResponse == [kind |-> "none", data |-> <<>>]

-----------------------------------------------------------------------------
(* The messages: a text is typed as up to MaxFragments fragments separated *)
(* by one space, then analysed.                                            *)

MaxFragments == 3

Fragments ==
    {
      <<"P","o","g","o","d","a">>,  \* Погода
      <<"K","a","k","o","j"," ","k","l","e","v">>,  \* Какой клев
      <<"v"," ","M","i","n","s","k","e">>,  \* в Минске
      <<"v"," ","L","i","d","e">>,  \* в Лиде
      <<"z","a","v","t","r","a","?">>,  \* завтра?
      <<"n","a"," ","3"," ","d","n","ya">>,  \* на 3 дня
      <<"n","a"," ","1","2"," ","d","n","e","j">>,  \* на 12 дней
      <<"n","a"," ","0"," ","d","n","e","j">>,  \* на 0 дней
      <<"n","a"," ","b","l","i","zh","a","j","sh","i","e"," ","5"," ","d","n","e","j">>,  \* на ближайшие 5 дней
      <<"p","o","s","l","e","z","a","v","t","r","a">>,  \* послезавтра
      <<"n","a"," ","n","e","d","e","l","yu">>,  \* на неделю
      <<"N","a"," ","v","y","h","o","d","n","y","e">>,  \* На выходные
      <<"s","e","g","o","d","n","ya">>,  \* сегодня
      <<"M","i","n","s","k">>,  \* Минск
      <<"D","l","ya">>,  \* Для
      <<"n","a"," ","B","a","j","k","a","l","e">>,  \* на Байкале
      <<"S","u","b","b","o","t","a">>,  \* Суббота
      <<"R","y","b","a">>   \* Рыба
    }

\* the users of the bot (user_id)
Users == {"u1", "u2"}

\* no call of the country memo yet
NoCall == [op |-> "none", user |-> "none", wrote |-> None, returned |-> None]

\* user_id is no key of self.user_context
NoContext == [none |-> TRUE]

\* no message handled yet
NoMessage ==
    [ user |-> "none", message |-> <<>>, routes |-> <<>>, reply |-> "none",
      raised |-> "none", named |-> None, place |-> None, fetched |-> None,
      cached |-> FALSE, stamp |-> 0, forecast |-> <<>>, offset |-> 0,
      days |-> 0, at |-> 0 ]

\* the result record before any analysis
EmptyResult ==
    [ intent |-> Undetermined, location |-> None, time_period |-> Undetermined,
      days |-> 1, is_question |-> FALSE ]

Init ==
    /\ pc = "typing"
    /\ text = <<>>
    /\ nfrag = 0
    /\ result = EmptyResult
    /\ api = "none"
    /\ rpc = "idle"
    /\ location_query = None
    /\ hints = <<>>
    /\ requests = <<>>
    /\ response = NoResponse
    /\ resolved = NoLocation
    /\ token = <<>>
    /\ outputs = <<>>
    /\ analyzer = {}
    /\ user_country_cache = [u \in Users |-> None]
    /\ lookups = [u \in Users |-> 0]
    /\ last_call = NoCall
    /\ manual = [u \in Users |-> None]
    /\ user_context = [u \in Users |-> NoContext]
    /\ now = 0
    /\ handled = NoMessage

\* the user types one more fragment of the message
Type(f) ==
    /\ pc = "typing"
    /\ nfrag < MaxFragments
    /\ text' = IF text = <<>> THEN f ELSE text \o <<" ">> \o f
    /\ nfrag' = nfrag + 1
    /\ UNCHANGED <<pc, result>>
    /\ UNCHANGED <<api, rpc, location_query, hints, requests, response, resolved>>
    /\ UNCHANGED others

\* the message is sent: analysis = intent_analyzer.analyze(message_text)
Analyze ==
    /\ pc = "typing"
    /\ result' = analyze(text)
    /\ pc' = "done"
    /\ UNCHANGED <<text, nfrag>>
    /\ UNCHANGED <<api, rpc, location_query, hints, requests, response, resolved>>
    /\ UNCHANGED others

Next ==
    \/ \E f \in Fragments : Type(f)
    \/ Analyze

Spec == Init /\ [][Next]_vars

-----------------------------------------------------------------------------
(* The resolver at work.  A call of resolve_location or of                 *)
(* resolve_with_country_hints sends its requests to the geocoding provider *)
(* one at a time and waits for each answer (async with session.get).       *)

\* the longest list of candidates the provider answers with
MaxCandidates == 2

\* the candidates of the provider: name, local_names['ru'], lat and lon (in
\* hundredths of a degree), country, state; None is a missing key
Candidates ==
    { [ name |-> <<"L_","i_","d_","a_">>, ru |-> <<"L","i","d","a">>, lat |-> 5389, lon |-> 2530,
        country |-> CountryBY, state |-> None ],
      [ name |-> <<"M_","i_","n_","s_","k_">>, ru |-> None, lat |-> 5390, lon |-> 2757,
        country |-> CountryBY, state |-> None ],
      [ name |-> <<"M_","o_","s_","c_","o_","w_">>, ru |-> <<"M","o","s","k","v","a">>, lat |-> 5575, lon |-> 3762,
        country |-> CountryRU, state |-> <<"M_","o_","s_","c_","o_","w_">> ] }

CandidateLists == UNION { [1..n -> Candidates] : n \in 0..MaxCandidates }

\* the answers to one request: a network error (session.get raises), a
\* status other than 200, a payload that is no list of objects (an exception
\* in response.json() or in _find_best_match), or a list of candidates
Responses ==
    { [kind |-> k, data |-> <<>>] : k \in {"error", "status", "malformed"} }
      \cup { [kind |-> "ok", data |-> d] : d \in CandidateLists }

\* the location queries
Queries ==
    { <<"L","i","d","a">>,
      <<"M","i","n","s","k">>,
      <<"v"," ","M","i","n","s","k","e">>,
      <<"v"," ","n","a"," ","M","i","n","s","k">>,
      <<"v">>,
      <<"M","i","n","s","k"," ","B","e","l","a","r","u","s","soft">>,
      <<"B","e","l","a","r","u","s","soft">>,
      <<"U_","n_","k_","n_","o_","w_","n_","p_","l_","a_","c_","e_","x_","y_","z_">> }

\* the country_hint arguments of a direct call of resolve_location
CountryHints == { None, CountryBY, CountryRU }

\* the query the calls of resolve_location are made with
CallQuery ==
    IF api = "resolve_location" THEN location_query
    ELSE HintsQuery(location_query)

\* a call resolve_location(query, country_hint) up to its first request
SendFirst(clean_query, country_hint) ==
    /\ requests' = Append(requests, search_query(clean_query, EffectiveHint(clean_query, country_hint)))
    /\ hints' = Append(hints, country_hint)
    /\ rpc' = "request"
CallResolve(query, country_hint) ==
    SendFirst(_clean_location_query(query), country_hint)

\* resolve_location(location_query, country_hint) is called
resolve_location(q, h) ==
    /\ rpc = "idle"
    /\ api' = "resolve_location"
    /\ location_query' = q
    /\ CallResolve(q, h)
    /\ UNCHANGED <<response, resolved, pc, text, nfrag, result>>
    /\ UNCHANGED others

\* resolve_with_country_hints(location_query) is called
resolve_with_country_hints(q) ==
    /\ rpc = "idle"
    /\ api' = "resolve_with_country_hints"
    /\ location_query' = q
    /\ CallResolve(HintsQuery(q), HintSequence(HintsQuery(q))[1])
    /\ UNCHANGED <<response, resolved, pc, text, nfrag, result>>
    /\ UNCHANGED others

\* (variant: resolve_with_country_hints gives up at the first call that fails)
Return_NoAdvance(value, query, sequence) ==
    /\ rpc' = "returned"
    /\ resolved' = value
    /\ UNCHANGED <<requests, hints>>

\* the call of resolve_location returns value: to the caller of a direct call;
\* in resolve_with_country_hints, "if result: return result", else the next
\* call, and the value of the last call is returned as it is
Return(value, query, sequence) ==
    IF \/ api = "resolve_location"
       \/ value # NoLocation
       \/ Len(hints) = Len(sequence)
    THEN /\ rpc' = "returned"
         /\ resolved' = value
         /\ UNCHANGED <<requests, hints>>
    ELSE /\ CallResolve(query, sequence[Len(hints) + 1])
         /\ UNCHANGED resolved

\* the step the call takes on an answer
Continue(step, query, clean_query) ==
    IF step.retry
    THEN /\ rpc' = "retry"
         /\ requests' = Append(requests, clean_query)
         /\ UNCHANGED <<hints, resolved>>
    ELSE Return(step.value, query, HintSequence(query))

Receive(r, query, clean_query, country_hint) ==
    IF rpc = "request"
    THEN Continue(AfterResponse(r, clean_query, country_hint), query, clean_query)
    ELSE Continue(Returns(AfterResponse2(r, clean_query)), query, clean_query)

ReceiveFor(r, query, clean_query) ==
    Receive(r, query, clean_query, EffectiveHint(clean_query, hints[Len(hints)]))

\* the provider answers the request in flight
Response(r) ==
    /\ rpc \in {"request", "retry"}
    /\ response' = r
    /\ ReceiveFor(r, CallQuery, _clean_location_query(CallQuery))
    /\ UNCHANGED <<api, location_query, pc, text, nfrag, result>>
    /\ UNCHANGED others

ProviderAnswers == \E r \in Responses : Response(r)

ResolverNext ==
    \/ \E q \in Queries : \E h \in CountryHints : resolve_location(q, h)
    \/ \E q \in Queries : resolve_with_country_hints(q)
    \/ ProviderAnswers

ResolverSpec == Init /\ [][ResolverNext]_vars

\* a request is in flight: the state in which ProviderAnswers is enabled
InFlight == rpc \in {"request", "retry"}

\* every request is answered or fails, the HTTP client gives up a request
\* after its total timeout: weak fairness of ProviderAnswers, with
\* ENABLED <<ProviderAnswers>>_vars written as the state predicate InFlight
ProviderFairness == []<>(~ InFlight) \/ []<><<ProviderAnswers>>_vars

FairResolverSpec == Init /\ [][ResolverNext]_vars /\ ProviderFairness

-----------------------------------------------------------------------------
(* analyze on a raw text: the text is put together from pieces with no     *)
(* separator added, so that it can be empty, blank, or made of stop-words  *)
(* and punctuation only.                                                   *)

\* the greatest number of pieces of a raw text
MaxPieces == 3

Pieces ==
    { <<" ">>,
      <<"P","o","g","o","d","a">>,
      <<"k","a","k","a","ya">>,
      <<"i">>,
      <<"?">>,
      <<"v">>,
      <<"M","i","n","s","k">> }

\* one more piece of the text
Piece(p) ==
    /\ pc = "typing"
    /\ nfrag < MaxPieces
    /\ text' = text \o p
    /\ nfrag' = nfrag + 1
    /\ UNCHANGED <<pc, result>>
    /\ UNCHANGED <<api, rpc, location_query, hints, requests, response, resolved>>
    /\ UNCHANGED others

RawNext ==
    \/ \E p \in Pieces : Piece(p)
    \/ Analyze

RawSpec == Init /\ [][RawNext]_vars

-----------------------------------------------------------------------------
(* Properties of analyze.  They are read in the states where a message has *)
(* been analysed: pc = "done", result = analyze(text).                     *)

Done == pc = "done"

\* the text holds a marker of the fishing lexicon / of the weather lexicon
HasFishingMarker == _contains_any(Lower(text), patterns_fishing_forecast)
HasWeatherMarker == _contains_any(Lower(text), patterns_weather)

\* the numbers N of all the day-count phrases "на N дн.." and
\* "на ближайши(е) N дн.." of a lower-case text
DayCountNumbers(t) ==
    LET pre1 == Lit(<<"n","a">>) \o <<Plus(Whitespace)>> \o Lit(<<"b","l","i","zh","a","j","sh","i">>) \o <<Opt({"e"})>> \o <<Plus(Whitespace)>>
        pre2 == Lit(<<"n","a">>) \o <<Plus(Whitespace)>>
        grp == <<Plus(Digits)>>
        at1 == { i \in 1..Len(t) :
                   MatchEnds(t, pre1 \o grp \o DaysSuffix, 1, FALSE, {i}) # {} }
        at2 == { i \in 1..Len(t) :
                   MatchEnds(t, pre2 \o grp \o DaysSuffix, 1, FALSE, {i}) # {} }
    IN { ParseInt(GroupAt(t, pre1, grp, DaysSuffix, FALSE, i)) : i \in at1 }
         \cup { ParseInt(GroupAt(t, pre2, grp, DaysSuffix, FALSE, i)) : i \in at2 }

\* the words of the text, lower-cased and stripped of punctuation
PlainWords(t) ==
    LET ws == Split(Lower(t))
    IN [i \in 1..Len(ws) |-> Strip(ws[i], StripChars)]

StartsWith(w, prefix) ==
    Len(w) >= Len(prefix) /\ SubSeq(w, 1, Len(prefix)) = prefix

\* the periods named by the explicit time markers of the text
MarkerKinds(t) ==
    LET ws == PlainWords(t)
    IN  (IF \E i \in 1..Len(ws) : ws[i] = <<"s","e","g","o","d","n","ya">>
         THEN {"today"} ELSE {})
        \cup (IF \E i \in 1..Len(ws) : ws[i] = <<"z","a","v","t","r","a">>
              THEN {"tomorrow"} ELSE {})
        \cup (IF \E i \in 1..Len(ws) : ws[i] = <<"p","o","s","l","e","z","a","v","t","r","a">>
              THEN {"day_after_tomorrow"} ELSE {})
        \cup (IF \E i \in 1..Len(ws) : StartsWith(ws[i], <<"n","e","d","e","l">>)
              THEN {"week"} ELSE {})
        \cup (IF \E i \in 1..Len(ws) : StartsWith(ws[i], <<"v","y","h","o","d","n">>)
              THEN {"weekend"} ELSE {})

\* C1: whenever the text holds a fishing marker and a weather marker at the
\* same time, the intent is fishing_forecast, whatever their order and
\* whatever location or time window is extracted.
C1_FishingWinsTie ==
    Done =>
      \/ result.intent = "fishing_forecast"
      \/ ~ (HasFishingMarker /\ HasWeatherMarker)

\* a weather marker typed first, then a fishing marker, with a location and
\* a day count extracted
C1_Witness ==
    /\ Done /\ HasFishingMarker /\ HasWeatherMarker
    /\ StartsWith(text, <<"P","o","g","o","d","a">>)
    /\ result.intent = "fishing_forecast"
    /\ result.location # None
    /\ result.days = 3

\* C2: the day count of every analysis is an integer of 1..10, also when the
\* day-count phrase names any non-negative number.
C2_DaysInRange == Done => result.days \in 1..MaxDays

\* C3: without a day-count phrase, the one time marker of a text decides the
\* period: none or "сегодня" today (1 day), "завтра" tomorrow (1 day),
\* "послезавтра" day_after_tomorrow, "недел.." week, "выходн.." weekend.
C3_MarkerPeriods ==
    LET kinds == MarkerKinds(text)
        claimed == IF kinds = {} THEN "today" ELSE CHOOSE k \in kinds : TRUE
    IN (Done /\ DayCountNumbers(Lower(text)) = {} /\ Cardinality(kinds) <= 1)
         => /\ result.time_period = claimed
            /\ claimed \in {"today", "tomorrow"} => result.days = 1

\* C9: the intent is always one of the three; when neither lexicon matches
\* it is weather exactly when a location was extracted, and
\* general_question otherwise.
C9_IntentTotal ==
    Done =>
      /\ result.intent \in {"weather", "fishing_forecast", "general_question"}
      /\ \/ /\ result.intent = "weather" <=> result.location # None
            /\ result.intent = "general_question" <=> result.location = None
         \/ HasFishingMarker
         \/ HasWeatherMarker

\* no lexicon marker, a location extracted: the bare place name is a weather
\* request
C9_Witness ==
    /\ Done /\ ~ HasFishingMarker /\ ~ HasWeatherMarker
    /\ result.location = <<"M","i","n","s","k">>
    /\ result.intent = "weather"

\* C10: a text whose day-count phrases name the one number N >= 1 is
\* analysed with days = N when N <= 10 and days = 10 when N > 10, whatever
\* other time marker stands in it.
C10_DayCount ==
    LET ns == DayCountNumbers(Lower(text))
        n == CHOOSE k \in ns : TRUE
    IN (Done /\ Cardinality(ns) = 1 /\ n >= 1)
         => result.days = (IF n <= 10 THEN n ELSE 10)

\* "на 12 дней" beside the marker "завтра": clamped to 10
C10_Witness ==
    /\ Done
    /\ DayCountNumbers(Lower(text)) = {12}
    /\ "tomorrow" \in MarkerKinds(text)
    /\ result.days = 10

\* the place names in an oblique case that the texts of the model use
PlaceForms == { <<"M","i","n","s","k","e">>, <<"L","i","d","e">> }  \* Минске, Лиде

\* normalize(Place) for every phrase "в <Place>" of the text
PlacesAfterV(t) ==
    LET ws == Split(t)
    IN { to_nominative(Strip(ws[i + 1], StripChars)) :
           i \in { k \in 1..(Len(ws) - 1) :
                     /\ Lower(ws[k]) = <<"v">>
                     /\ Strip(ws[k + 1], StripChars) \in PlaceForms } }

\* C4: a text with the phrase "в <Place>" is analysed with location =
\* normalize(Place), wherever intent words, time markers and day-count
\* phrases stand around it; "Погода в Лиде на 3 дня" gives (weather, Лида,
\* 3 days) and "Какой клев в Минске завтра?" gives (fishing_forecast, Минск,
\* tomorrow, 1 day).
C4_LocationAfterV ==
    Done =>
      /\ PlacesAfterV(text) # {} => result.location \in PlacesAfterV(text)
      /\ text = <<"P","o","g","o","d","a"," ","v"," ","L","i","d","e"," ","n","a"," ","3"," ","d","n","ya">>
           => /\ result.intent = "weather"
              /\ result.location = <<"L","i","d","a">>
              /\ result.days = 3
      /\ text = <<"K","a","k","o","j"," ","k","l","e","v"," ","v"," ","M","i","n","s","k","e"," ","z","a","v","t","r","a","?">>
           => /\ result.intent = "fishing_forecast"
              /\ result.location = <<"M","i","n","s","k">>
              /\ result.time_period = "tomorrow"
              /\ result.days = 1

\* the names of the days of the week and of the months, lower-case
DayMonthNames ==
    {
      <<"p","o","n","e","d","e","l","soft","n","i","k">>,  \* понедельник
      <<"v","t","o","r","n","i","k">>,  \* вторник
      <<"s","r","e","d","a">>,  \* среда
      <<"ch","e","t","v","e","r","g">>,  \* четверг
      <<"p","ya","t","n","i","c","a">>,  \* пятница
      <<"s","u","b","b","o","t","a">>,  \* суббота
      <<"v","o","s","k","r","e","s","e","n","soft","e">>,  \* воскресенье
      <<"ya","n","v","a","r","soft">>,  \* январь
      <<"f","e","v","r","a","l","soft">>,  \* февраль
      <<"m","a","r","t">>,  \* март
      <<"a","p","r","e","l","soft">>,  \* апрель
      <<"m","a","j">>,  \* май
      <<"i","yu","n","soft">>,  \* июнь
      <<"i","yu","l","soft">>,  \* июль
      <<"a","v","g","u","s","t">>,  \* август
      <<"s","e","n","t","ya","b","r","soft">>,  \* сентябрь
      <<"o","k","t","ya","b","r","soft">>,  \* октябрь
      <<"n","o","ya","b","r","soft">>,  \* ноябрь
      <<"d","e","k","a","b","r","soft">>   \* декабрь
    }

\* the text is exactly one word that starts with an upper-case letter
SingleCapitalized(t) ==
    /\ t # <<>>
    /\ IsUpper(t[1])
    /\ \A i \in 2..Len(t) : t[i] \in LowerLetters \cup UpperLetters \cup {"-"}

\* C5 as stated: a text of exactly one capitalised word of length > 2 that is
\* no day-of-week or month name is analysed with that word, normalised, as
\* the location and with intent weather.
C5_SingleWord ==
    (Done /\ SingleCapitalized(text) /\ Len(text) > 2
          /\ Lower(text) \notin DayMonthNames)
        => /\ result.location = to_nominative(text)
           /\ result.intent = "weather"

\* C5, amended: ... that is no day-of-week or month name, no stop-word of
\* remove_words and no preposition of end_words is analysed with that word,
\* normalised, as the location, and with intent weather unless the word
\* matches the fishing lexicon, in which case the intent is fishing_forecast.
C5_SingleWordAmended ==
    (Done /\ SingleCapitalized(text) /\ Len(text) > 2
          /\ Lower(text) \notin DayMonthNames
          /\ Lower(text) \notin remove_words \cup end_words)
        => /\ result.location = to_nominative(text)
           /\ result.intent = (IF HasFishingMarker THEN "fishing_forecast"
                               ELSE "weather")

\* the bare place name "Минск"
C5_Witness ==
    /\ Done
    /\ text = <<"M","i","n","s","k">>
    /\ result.location = <<"M","i","n","s","k">>
    /\ result.intent = "weather"

\* the span captured by the first template of patterns['location'] that
\* matches the text and whose span is no stop-word; None when there is none
TemplateCapture(t) ==
    LET Cap(k) == SearchGroup(t, patterns_location[k][1], patterns_location[k][2],
                              patterns_location[k][3], FALSE)
        wins == { k \in 1..Len(patterns_location) :
                    Cap(k) # None /\ Lower(Cap(k)) \notin remove_words }
    IN IF wins = {} THEN None
       ELSE Cap(CHOOSE k \in wins : \A m \in wins : k <= m)

\* C6: when a template of patterns['location'] ("в", "на", "для" before a
\* capitalised word that is no stop-word, or a capitalised word before
\* "район") matches, the extractor returns the captured word, normalised:
\* the templates are tried in order and come before the scan for the first
\* capitalised token.
C6_TemplatesFirst ==
    LET cap == TemplateCapture(text)
    IN (Done /\ cap # None)
         => result.location \in { to_nominative(cap),
                                  to_nominative(Split(cap)[1]) }

\* neither the single-word shortcut nor the "в <Place>" search gives a location
NoEarlierStep(t) == SingleWordStep(t) = None /\ PrepositionStep(t) = None

\* the conditions (a)-(d) of the scan as the claim states them
ClaimedScanOk(w) ==
    /\ w # <<>> /\ IsUpper(w[1])
    /\ Len(w) > 2
    /\ Lower(w) \notin DayMonthNames
    /\ Lower(w) \notin remove_words

\* the conditions without (c), the day-of-week and month names
AmendedScanOk(w) ==
    /\ w # <<>> /\ IsUpper(w[1])
    /\ Len(w) > 2
    /\ Lower(w) \notin remove_words

\* the first word of ws that Ok accepts, normalised; None when there is none
FirstAccepted(ws, Ok(_)) ==
    LET ok == { i \in 1..Len(ws) : Ok(ws[i]) }
    IN IF ok = {} THEN None
       ELSE to_nominative(ws[CHOOSE i \in ok : \A k \in ok : i <= k])

\* C7 as stated: when no earlier step gives a location, the extractor returns
\* the first remaining token that starts upper-case, is longer than 2, is no
\* day-of-week or month name and no stop-word, and never another token.
C7_Scan ==
    (Done /\ NoEarlierStep(text))
        => result.location = FirstAccepted(final_words(text), ClaimedScanOk)

\* C7, amended: ... the first remaining token that starts upper-case, is
\* longer than 2 and is no stop-word (a day-of-week or month name is
\* returned like any other word), and never another token.
C7_ScanAmended ==
    (Done /\ NoEarlierStep(text))
        => result.location = FirstAccepted(final_words(text), AmendedScanOk)

\* the scan passes over the short capitalised "На" and returns "Минск"
C7_Witness ==
    /\ Done /\ NoEarlierStep(text)
    /\ StartsWith(text, <<"N","a"," ","v","y","h","o","d","n","y","e">>)
    /\ result.location = <<"M","i","n","s","k">>

\* C8: a location, when present, is a non-empty string without leading or
\* trailing whitespace that neither begins nor ends with (nor is) a
\* stop-word or a preposition.
C8_LocationTrimmed ==
    (Done /\ result.location # None) =>
      LET loc == result.location
          ws == Split(Lower(loc))
      IN /\ loc # <<>>
         /\ loc[1] \notin Whitespace /\ loc[Len(loc)] \notin Whitespace
         /\ ws[1] \notin remove_words \cup end_words
         /\ ws[Len(ws)] \notin remove_words \cup end_words

-----------------------------------------------------------------------------
(* Properties of _extract_location on raw texts (RawSpec).                 *)

\* no word of the text survives the removal of the stop-words: every word,
\* stripped of punctuation, is a stop-word or empty
NoWordSurvives(t) ==
    \A i \in 1..Len(PlainWords(t)) :
        PlainWords(t)[i] \in remove_words \cup {<<>>}

\* C11: the location extractor returns None for the empty text, for a text
\* of whitespace only and for every text in which no word survives the
\* removal of the stop-words; the analysis always yields a result
C11_NoLocationExtracted ==
    (Done /\ NoWordSurvives(text)) => result.location = None

\* a text of stop-words only has been analysed
C11_Witness ==
    /\ Done
    /\ text = <<"k","a","k","a","ya"," ","P","o","g","o","d","a">>
    /\ result.location = None

-----------------------------------------------------------------------------
(* Properties of the resolver (ResolverSpec).                              *)

Returned == rpc = "returned"
Direct == api = "resolve_location"
Chained == api = "resolve_with_country_hints"
EmptyList == [kind |-> "ok", data |-> <<>>]

\* the query of the calls of resolve_location, cleaned
CleanedCallQuery == _clean_location_query(CallQuery)

\* C12: in resolve_location, when a country hint was supplied and the
\* provider answers the hinted request with an empty list, exactly one more
\* request is sent, for the same cleaned query without the country hint
C12_RetryWithoutHint ==
    (Direct /\ Returned /\ hints[1] # None /\ response = EmptyList) =>
        /\ Len(requests) = 2
        /\ requests[2] = CleanedCallQuery

\* the order of the attempts C13 names
ClaimedOrder(city_lower) ==
    (IF InTable(popular_cities, city_lower)
     THEN <<TableGet(popular_cities, city_lower)>> ELSE <<>>)
      \o <<CountryBY, CountryRU, CountryUA, CountryLT, CountryLV, CountryPL,
           CountryEE, CountryMD, CountryKZ>>

IsPrefix(s, t) == Len(s) <= Len(t) /\ SubSeq(t, 1, Len(s)) = s

\* C13: resolve_with_country_hints makes its attempts one after another in a
\* fixed order (the country of a known city first, then BY, RU, UA, LT, LV,
\* PL, EE, MD, KZ), returns the result of the first attempt that succeeds and
\* sends no request after it; for "Минск" the first attempt carries BY
C13_HintOrder ==
    /\ [] (Chained =>
             /\ IsPrefix(hints, ClaimedOrder(Lower(CallQuery)) \o <<None>>)
             /\ Len(requests) = Len(hints)
             /\ (location_query = <<"M","i","n","s","k">> =>
                   /\ hints[1] = CountryBY
                   /\ requests[1] = <<"M","i","n","s","k",",","B_","Y_">>)
             /\ (Returned /\ resolved = NoLocation =>
                   hints = ClaimedOrder(Lower(CallQuery)) \o <<None>>))
    /\ [][ (Chained /\ response'.kind = "ok" /\ response'.data # <<>>) =>
             /\ rpc' = "returned"
             /\ resolved' # NoLocation
             /\ requests' = requests
             /\ hints' = hints ]_vars

\* "Минск" is found at the third attempt
C13_Witness ==
    /\ Chained /\ Returned
    /\ location_query = <<"M","i","n","s","k">>
    /\ hints = <<CountryBY, CountryBY, CountryRU>>
    /\ resolved # NoLocation

\* C14: when every hinted attempt of resolve_with_country_hints has failed,
\* the last attempt sends the bare cleaned query, with no country hint
C14_LastWithoutHint ==
    (Chained /\ hints # <<>> /\ hints[Len(hints)] = None) =>
        requests[Len(requests)] = CleanedCallQuery

\* C15: resolve_location sends at most 2 requests, and
\* resolve_with_country_hints at most len(country_hints) + 1 requests
C15_RequestsBounded ==
    /\ Direct => Len(requests) <= 2
    /\ Chained => Len(requests) <= Len(country_hints) + 1

\* a name that is present contains the query or is contained in it
NameMatches(name, original_lower) ==
    /\ name # None
    /\ \/ Contains(Lower(name), original_lower)
       \/ Contains(original_lower, Lower(name))
\* the match of C16: by the ru name or by the name, a missing name not counting
ClaimedMatch(item, original_lower) ==
    NameMatches(item.ru, original_lower) \/ NameMatches(item.name, original_lower)
\* the candidate C16 selects: the first that matches, else the first
ClaimedSelection(results, original_lower) ==
    LET hits == { i \in 1..Len(results) : ClaimedMatch(results[i], original_lower) }
    IN IF hits # {} THEN results[MinOrZero(hits)] ELSE results[1]

\* the candidate the location returned is built from, by its fields
BuiltFrom(location, item) ==
    /\ location.name = GetOrEmpty(item.name)
    /\ location.lat = item.lat
    /\ location.lon = item.lon
    /\ location.country = GetOrEmpty(item.country)

\* C16: of a non-empty list the resolver selects the first candidate whose
\* ru name or name contains the lower-cased cleaned query or is contained in
\* it, a missing name not counting as a match; the first candidate of the
\* list is selected only when no candidate matches
C16_FirstMatching ==
    (Returned /\ response.kind = "ok" /\ response.data # <<>>) =>
        /\ resolved # NoLocation
        /\ BuiltFrom(resolved,
                     ClaimedSelection(response.data, Lower(CleanedCallQuery)))

\* C17: resolve_location returns a location only when the provider answered
\* with a non-empty list, and the location is built from a candidate of that
\* list; an empty list gives None, never a location of default values
C17_LocationFromCandidate ==
    Returned =>
        /\ resolved # NoLocation =>
              /\ response.kind = "ok"
              /\ \E i \in 1..Len(response.data) :
                    BuiltFrom(resolved, response.data[i])
        /\ response = EmptyList => resolved = NoLocation

\* resolve_location("Unknownplacexyz") has returned None on an empty list
C17_Witness ==
    /\ Direct /\ Returned
    /\ location_query = <<"U_","n_","k_","n_","o_","w_","n_","p_","l_","a_","c_","e_","x_","y_","z_">>
    /\ hints = <<None>>
    /\ response = EmptyList
    /\ resolved = NoLocation

\* the answer is a failure: a network error, a status other than 200 or a
\* malformed payload
Failed(r) == r.kind \in {"error", "status", "malformed"}

\* C18: a network error, a status other than 200 or a malformed payload makes
\* the call of resolve_location return None; in resolve_with_country_hints
\* the failure is the failure of that step only, the next hint is tried, and
\* every call ends with a location or with None
C18_FailuresAbsorbed ==
    /\ [][ (rpc = "request" /\ Failed(response')) =>
             /\ Direct => (rpc' = "returned" /\ resolved' = NoLocation)
             /\ (Chained /\ hints[Len(hints)] # None) =>
                   /\ rpc' = "request"
                   /\ Len(hints') = Len(hints) + 1
                   /\ Len(requests') = Len(requests) + 1
             /\ (Chained /\ hints[Len(hints)] = None) =>
                   (rpc' = "returned" /\ resolved' = NoLocation) ]_vars
    /\ InFlight ~> Returned

\* resolve_with_country_hints has found "Лида" after two failed attempts
C18_Witness ==
    /\ Chained /\ Returned
    /\ location_query = <<"L","i","d","a">>
    /\ Len(requests) = 3
    /\ resolved # NoLocation

\* the candidate the code selects: the first the test passes, else the first
SelectedItem(results, original_lower) ==
    IF SimilarIn(results, original_lower) # {}
    THEN results[MinOrZero(SimilarIn(results, original_lower))]
    ELSE results[1]

\* C19: the location returned carries the latitude, the longitude and the
\* country code of the selected candidate unchanged; resolve("Лида", "BY")
\* on the one candidate Lida / Лида of BY gives its coordinates and 'BY'
C19_CoordinatesKept ==
    /\ (Returned /\ resolved # NoLocation) =>
          BuiltFrom(resolved, SelectedItem(response.data, Lower(CleanedCallQuery)))
    /\ (/\ Direct /\ Returned
        /\ location_query = <<"L","i","d","a">>
        /\ hints = <<CountryBY>>
        /\ response.kind = "ok" /\ Len(response.data) = 1
        /\ response.data[1].name = <<"L_","i_","d_","a_">>) =>
          /\ resolved # NoLocation
          /\ resolved.lat = 5389 /\ resolved.lon = 2530
          /\ resolved.country = CountryBY

\* resolve("Лида", "BY") has returned on the one candidate Lida
C19_Witness ==
    /\ Direct /\ Returned
    /\ location_query = <<"L","i","d","a">>
    /\ hints = <<CountryBY>>
    /\ Len(response.data) = 1
    /\ resolved # NoLocation
    /\ resolved.local_name = <<"L","i","d","a">>

\* C20: the cleaned query neither begins nor ends with a stop-preposition,
\* so cleaning a cleaned query changes nothing
C20_CleanIdempotent ==
    Direct =>
        LET cleaned == _clean_location_query(location_query)
            words == Split(cleaned)
        IN /\ words # <<>> =>
                /\ Lower(words[1]) \notin stop_words_start \cup stop_words_end
                /\ Lower(words[Len(words)]) \notin stop_words_start \cup stop_words_end
           /\ _clean_location_query(cleaned) = cleaned

-----------------------------------------------------------------------------
(* MorphAnalyzer.to_nominative as it is called: on any token, and on its   *)
(* own result.  The analyzer is a function of the token: it gives a parse  *)
(* or raises, and it answers a token the same way each time.               *)

MaxTokenLen == 6

\* the pieces a token is put together from
Syllables ==
    { <<"M","i","n">>, <<"m","i","n">>, <<"M","I","N">>, <<"s","k">>, <<"S","K">>,
      <<"L","i","d">>, <<"e">>, <<"a">>, <<"z_">> }

\* raise of an exception, where a call returns a token
Exception == <<"Exception">>

\* (variant: to_nominative without its except clause)
to_nominative_try_NoExcept(word, parsed) ==
    IF parsed THEN to_nominative(word) ELSE Exception

\* to_nominative with its try / except: the word itself when self.morph.parse
\* raises
to_nominative_try(word, parsed) ==
    IF parsed THEN to_nominative(word) ELSE word

\* the token to_nominative is called on next: the token, then the result
Argument == IF outputs = <<>> THEN token ELSE outputs[Len(outputs)]

\* one more piece of the token
Syllable(p) ==
    /\ outputs = <<>>
    /\ Len(token) + Len(p) <= MaxTokenLen
    /\ token' = token \o p
    /\ UNCHANGED <<outputs, analyzer>>
    /\ UNCHANGED <<pc, text, nfrag, result>>
    /\ UNCHANGED <<api, rpc, location_query, hints, requests, response, resolved>>
    /\ UNCHANGED <<geoipVars, botVars>>

\* self.morph.parse(word) gives a parse (parsed) or raises, as it did before
\* on the same word
Parse(word, parsed) ==
    /\ \A a \in analyzer : a[1] = word => a[2] = parsed
    /\ analyzer' = analyzer \cup {<<word, parsed>>}

\* to_nominative(token), then to_nominative of the result
Normalize ==
    /\ Len(outputs) < 2
    /\ \E parsed \in BOOLEAN :
          /\ Parse(Argument, parsed)
          /\ outputs' = Append(outputs, to_nominative_try(Argument, parsed))
    /\ UNCHANGED token
    /\ UNCHANGED <<pc, text, nfrag, result>>
    /\ UNCHANGED <<api, rpc, location_query, hints, requests, response, resolved>>
    /\ UNCHANGED <<geoipVars, botVars>>

MorphNext ==
    \/ \E p \in Syllables : Syllable(p)
    \/ Normalize

MorphSpec == Init /\ [][MorphNext]_vars

-----------------------------------------------------------------------------
(* Claims C24 .. C26: the normalizer.                                      *)

\* the calls of to_nominative made so far: argument and result
Calls ==
    { [ argument |-> IF i = 1 THEN token ELSE outputs[i - 1],
        value |-> outputs[i] ] : i \in 1..Len(outputs) }

StartsUpper(w) == w # <<>> /\ IsUpper(w[1])

\* C24: for every token that starts with an upper-case letter, to_nominative
\* returns a token that starts with an upper-case letter, whether or not the
\* analyzer changed the word
C24_CapitalKept ==
    \A c \in Calls : StartsUpper(c.argument) => StartsUpper(c.value)

\* to_nominative("МИНске") has returned "Минск": the analyzer changed the word
C24_Witness ==
    /\ token = <<"M","I","N","s","k","e">>
    /\ Len(outputs) >= 1
    /\ outputs[1] = <<"M","i","n","s","k">>

Unknown(w) == NormalForm(w) = Lower(w)

\* C26: to_nominative never raises: on every input, the empty token and a
\* token the analyzer raises on included, it returns a token, and it returns
\* the input unchanged when the analyzer raises or knows no other form
C26_NeverRaises ==
    \A c \in Calls :
        /\ c.value # Exception
        /\ c.value \in Seq(AnyChar)
        /\ (<<c.argument, FALSE>> \in analyzer \/ Unknown(c.argument))
              => c.value = c.argument

\* the analyzer has raised on the empty token, and to_nominative has returned
\* the empty token
C26_Witness ==
    /\ token = <<>>
    /\ <<token, FALSE>> \in analyzer
    /\ Len(outputs) >= 1
    /\ outputs[1] = <<>>

-----------------------------------------------------------------------------
(* GeoIPService (src/src/geoip.py): the country memo.  The calls run on one *)
(* event loop: a call runs alone up to its await, and any other call may   *)
(* run while it waits for the answer of the IP service.                    *)
(* user_country_cache[u] is None when u is no key of the dict; lookups[u]  *)
(* counts the calls get_user_country(u, ip) that wait for their answer;    *)
(* last_call is the call that ran last, with the value it wrote and the    *)
(* value it returned; manual[u] is the country of the last                 *)
(* set_user_country(u, ...).                                               *)

MaxLookups == 2

\* the default country of get_user_country
default_country == CountryBY

\* the country codes a user sets
Countries == {CountryBY, CountryRU, CountryUA}

\* what _get_country_by_ip returns: data.get('countryCode'), a code, an empty
\* string or None; None as well on an exception or a status other than 200
LookedUp == {CountryRU, CountryUA, <<>>, None}

\* "if country:"
Truthy(country) == country \notin {None, <<>>}

\* get_user_country(user_id, ip_address) up to its return or its await:
\* the memoized country; with an address, the wait for the IP service;
\* with none, the default, which is memoized
get_user_country(user_id, ip_address) ==
    /\ IF user_country_cache[user_id] # None
       THEN /\ last_call' = [op |-> "get_user_country", user |-> user_id,
                             wrote |-> None,
                             returned |-> user_country_cache[user_id]]
            /\ UNCHANGED <<user_country_cache, lookups>>
       ELSE IF ip_address
       THEN /\ lookups[user_id] < MaxLookups
            /\ lookups' = [lookups EXCEPT ![user_id] = @ + 1]
            /\ last_call' = [op |-> "get_user_country", user |-> user_id,
                             wrote |-> None, returned |-> None]
            /\ UNCHANGED user_country_cache
       ELSE /\ user_country_cache' =
                  [user_country_cache EXCEPT ![user_id] = default_country]
            /\ last_call' = [op |-> "get_user_country", user |-> user_id,
                             wrote |-> default_country,
                             returned |-> default_country]
            /\ UNCHANGED lookups
    /\ UNCHANGED manual
    /\ UNCHANGED <<pc, text, nfrag, result>>
    /\ UNCHANGED <<api, rpc, location_query, hints, requests, response, resolved>>
    /\ UNCHANGED <<morphVars, botVars>>

\* the country a call memoizes and returns after its await
AfterLookup(country) == IF Truthy(country) THEN country ELSE default_country

\* _get_country_by_ip returns country to a waiting get_user_country(user_id,
\* ip_address), which memoizes and returns it, or the default
_get_country_by_ip(user_id, country) ==
    /\ lookups[user_id] > 0
    /\ lookups' = [lookups EXCEPT ![user_id] = @ - 1]
    /\ user_country_cache' =
          [user_country_cache EXCEPT ![user_id] = AfterLookup(country)]
    /\ last_call' = [op |-> "_get_country_by_ip", user |-> user_id,
                     wrote |-> AfterLookup(country),
                     returned |-> AfterLookup(country)]
    /\ UNCHANGED manual
    /\ UNCHANGED <<pc, text, nfrag, result>>
    /\ UNCHANGED <<api, rpc, location_query, hints, requests, response, resolved>>
    /\ UNCHANGED <<morphVars, botVars>>

\* (variant: one entry for all users)
set_user_country_Shared(user_id, country_code) ==
    /\ user_country_cache' = [u \in Users |-> country_code]
    /\ manual' = [manual EXCEPT ![user_id] = country_code]
    /\ last_call' = [op |-> "set_user_country", user |-> user_id,
                     wrote |-> country_code, returned |-> None]
    /\ UNCHANGED lookups
    /\ UNCHANGED <<pc, text, nfrag, result>>
    /\ UNCHANGED <<api, rpc, location_query, hints, requests, response, resolved>>
    /\ UNCHANGED <<morphVars, botVars>>

\* set_user_country(user_id, country_code)
set_user_country(user_id, country_code) ==
    /\ user_country_cache' =
          [user_country_cache EXCEPT ![user_id] = country_code]
    /\ manual' = [manual EXCEPT ![user_id] = country_code]
    /\ last_call' = [op |-> "set_user_country", user |-> user_id,
                     wrote |-> country_code, returned |-> None]
    /\ UNCHANGED lookups
    /\ UNCHANGED <<pc, text, nfrag, result>>
    /\ UNCHANGED <<api, rpc, location_query, hints, requests, response, resolved>>
    /\ UNCHANGED <<morphVars, botVars>>

GeoIPNext ==
    \/ \E u \in Users : \E ip \in BOOLEAN : get_user_country(u, ip)
    \/ \E u \in Users : \E c \in LookedUp : _get_country_by_ip(u, c)
    \/ \E u \in Users : \E c \in Countries : set_user_country(u, c)

GeoIPSpec == Init /\ [][GeoIPNext]_vars

-----------------------------------------------------------------------------
(* Claims C23 and C29: the country memo.                                   *)

\* C23: under any interleaving of the calls, the entry of a user is the value
\* of the most recent write made for that user, and a call made for one user
\* never changes the entry of another user
C23_LastWriterWins ==
    /\ [](last_call.wrote # None =>
              user_country_cache[last_call.user] = last_call.wrote)
    /\ [][ /\ \A u \in Users \ {last_call'.user} :
                 user_country_cache'[u] = user_country_cache[u]
           /\ last_call'.wrote = None =>
                 user_country_cache' = user_country_cache ]_vars

\* u2 has set its country, then a call of u1 that waited for the IP service
\* has memoized the answer: two entries, two values
C23_Witness ==
    /\ manual["u2"] = CountryRU
    /\ manual["u1"] = None
    /\ last_call.op = "_get_country_by_ip"
    /\ last_call.user = "u1"
    /\ user_country_cache["u1"] = CountryUA
    /\ user_country_cache["u2"] = CountryRU

\* C29: a country set with set_user_country(u, c) stays the memoized country
\* of u until the next set_user_country for u: no get_user_country(u), a call
\* that waits for its IP lookup since before the set included, replaces it,
\* and every get_user_country(u) that starts after the set returns c
C29_ManualKept ==
    /\ \A u \in Users :
          manual[u] # None => user_country_cache[u] = manual[u]
    /\ (/\ last_call.op = "get_user_country"
        /\ manual[last_call.user] # None) =>
           last_call.returned = manual[last_call.user]

-----------------------------------------------------------------------------
(* FishingForecastBot (src/src/bot_handlers.py): handle_message and the    *)
(* handlers it calls.  The application handles one update at a time, so a  *)
(* message is handled in one step.  now is the clock, in minutes; a date   *)
(* is a number of days.  A forecast is the sequence of the dates of its    *)
(* days.  handled is the message handled last: the handlers called, the    *)
(* reply sent, the exception raised, the location the message named, the   *)
(* location the handler worked with, the location weather was fetched for, *)
(* whether the snapshot of the user was reused and when it was stored, and *)
(* the forecast handed to the forecaster.                                  *)

MaxNow == 60

\* the time that passes between two messages, in minutes
Delays == {15}

\* timedelta(minutes=30)
MaxAge == 30

DayMinutes == 1440

\* datetime.now().date(), as a number of days
Today == now \div DayMinutes

Max(a, b) == IF a >= b THEN a ELSE b

\* None, where a call returns weather data
NoData == [none |-> TRUE]

\* the texts the users send
Texts ==
    { <<"k","l","e","v"," ","v"," ","L","i","d","e">>, <<"k","l","e","v"," ","v"," ","L","i","d","e"," ","z","a","v","t","r","a">>, <<"k","l","e","v"," ","v"," ","L","i","d","e"," ","n","a"," ","2"," ","d","n","ya">>,
      <<"k","l","e","v"," ","v"," ","L","i","d","e","?">>, <<"K","l","e","v"," ","v"," ","M","i","n","s","k","e">>, <<"k","l","e","v">>,
      <<"P","o","g","o","d","a"," ","v"," ","L","i","d","e">>, <<"P","o","g","o","d","a"," ","n","a"," ","2"," ","d","n","ya">>, <<"P","o","g","o","d","a">>, <<"P","o","g","o","d","a","?">>,
      <<"k","a","k"," ","d","e","l","a">> }

\* update.message.text, and the analysis of it:
\* analysis = intent_analyzer.analyze(message_text)
Messages ==
    { [ message_text |-> t, analysis |-> analyze(Strip(t, Whitespace)) ] :
        t \in Texts }

\* the handlers handle_message calls, in the order of the calls
\* (variant: the fishing handler does not end the handling of the message)
Routes_NoReturn(analysis, message_text) ==
    (IF analysis.intent = "fishing_forecast" THEN <<"fishing">> ELSE <<>>)
    \o (IF analysis.location # None /\ analysis.location # <<>>
           /\ analysis.intent = "weather"
        THEN <<"weather">>
        ELSE IF \/ Contains(Lower(message_text), <<"?">>)
                \/ analysis.intent = "general_question"
        THEN <<"ai_chat">>
        ELSE <<"help">>)

\* the handlers handle_message calls: the first of the four cases that holds
Routes(analysis, message_text) ==
    IF analysis.intent = "fishing_forecast" THEN <<"fishing">>
    ELSE IF analysis.location # None /\ analysis.location # <<>>
            /\ analysis.intent = "weather"
    THEN <<"weather">>
    ELSE IF \/ Contains(Lower(message_text), <<"?">>)
            \/ analysis.intent = "general_question"
    THEN <<"ai_chat">>
    ELSE <<"help">>

\* _get_time_period_offset
_get_time_period_offset(time_period) ==
    IF time_period = "tomorrow" THEN 1
    ELSE IF time_period = "day_after_tomorrow" THEN 2
    ELSE 0

\* the characters re.sub(r'[^a-zа-я0-9]+', '', ...) keeps
NameChars == (LowerLetters \ {"yo"}) \cup LatinLower \cup Digits

IsNameChar(c) == c \in NameChars

\* _normalize_location_name
_normalize_location_name(name) ==
    IF name = None \/ name = <<>> THEN <<>>
    ELSE SelectSeq(Lower(name), IsNameChar)

\* the places of the weather service: 'location' of the formatted response,
\* f"{russian_name}, {country_display}"
Places == { <<"L","i","d","a",","," ","B","e","l","a","r","u","s","soft">>, <<"M","i","n","s","k",","," ","B","e","l","a","r","u","s","soft">> }

\* the place the weather service finds for the location: the place of that
\* name, with or without its country
PlaceOf(name) ==
    { p \in Places :
        _normalize_location_name(name) \in
            { _normalize_location_name(p), _normalize_location_name(Split(p)[1]) } }

\* get_weather_forecast(location, days) at its best: the 'days' first dates
\* of the provider's list, which starts today
WeatherOf(place, requested) ==
    [ location |-> place, days |-> requested,
      forecast |-> [i \in 1..requested |-> Today + i - 1] ]

\* what get_weather_forecast(location, days) may return: the forecast of the
\* place, or None (no such place, an error of the provider)
get_weather_forecast(name, requested) ==
    { WeatherOf(p, requested) : p \in PlaceOf(name) } \cup {NoData}

\* (variant: a snapshot of any age is reused)
_get_cached_weather_NoAge(context, name, min_days) ==
    IF context = NoContext THEN NoData
    ELSE IF _normalize_location_name(context.last_weather_location)
               # _normalize_location_name(name) THEN NoData
    ELSE IF context.last_weather_full.days < min_days THEN NoData
    ELSE context.last_weather_full

\* _get_cached_weather: the snapshot of the user, if it is of the location,
\* not older than 30 minutes and of enough days
_get_cached_weather(context, name, min_days) ==
    IF context = NoContext THEN NoData
    ELSE IF _normalize_location_name(context.last_weather_location)
               # _normalize_location_name(name) THEN NoData
    ELSE IF now - context.last_weather_timestamp > MaxAge THEN NoData
    ELSE IF context.last_weather_full.days < min_days THEN NoData
    ELSE context.last_weather_full

\* sorted(forecasts, key=date)
SortedByDate(forecasts) ==
    LET dates == { forecasts[i] : i \in 1..Len(forecasts) }
    IN [ i \in 1..Cardinality(dates) |->
           CHOOSE d \in dates : Cardinality({ e \in dates : e < d }) = i - 1 ]

\* the first n items
Take(s, n) == SubSeq(s, 1, Min(n, Len(s)))

\* the days from start_date on, at most max(days, 1) of them
Filtered(sorted_forecasts, start_date, requested) ==
    LET FromStart(d) == d >= start_date
    IN Take(SelectSeq(sorted_forecasts, FromStart), Max(requested, 1))

Sliced(weather_data, filtered) ==
    IF filtered = <<>> THEN weather_data
    ELSE [weather_data EXCEPT !.forecast = filtered, !.days = Len(filtered)]

\* _slice_weather_forecast: the days from the first date of the data plus the
\* offset on
_slice_weather_forecast(weather_data, start_offset_days, requested) ==
    IF weather_data = NoData \/ weather_data.forecast = <<>> THEN weather_data
    ELSE Sliced(weather_data,
                Filtered(SortedByDate(weather_data.forecast),
                         SortedByDate(weather_data.forecast)[1] + start_offset_days,
                         requested))

\* _store_weather_context(user_id, location, weather_data, full_weather_data):
\* the context of the user after the call (the fields the handlers of a
\* message read)
_store_weather_context(weather_data, full_weather_data) ==
    [ last_weather_full |-> IF full_weather_data # NoData THEN full_weather_data
                            ELSE weather_data,
      last_weather_location |-> weather_data.location,
      last_weather_timestamp |-> now,
      last_region |-> weather_data.location ]
\* "not location"
NoPlace(name) == name = None \/ name = <<>>

\* the message as handle_message finds it, before any handler is called
Received(user_id, m, routes) ==
    [ NoMessage EXCEPT !.user = user_id, !.message = m.message_text,
                       !.routes = routes, !.named = m.analysis.location,
                       !.offset = _get_time_period_offset(m.analysis.time_period),
                       !.days = m.analysis.days, !.at = now ]

\* a handler ends: its last reply, and the context it leaves to the user
Replied(user_id, message, context, reply) ==
    /\ handled' = [message EXCEPT !.reply = reply]
    /\ user_context' = [user_context EXCEPT ![user_id] = context]

\* an exception leaves handle_message: error_handler sends its message
Raised(message, exception) ==
    /\ handled' = [message EXCEPT !.raised = exception, !.reply = "unexpected_error"]
    /\ UNCHANGED user_context

\* the location the fishing handler works with: the location of the analysis
\* or, with none, the location the context of the user remembers
FishingLocation(context, analysis) ==
    IF NoPlace(analysis.location) /\ context # NoContext
    THEN IF ~ NoPlace(context.last_weather_location)
         THEN context.last_weather_location
         ELSE context.last_region
    ELSE analysis.location

\* max(days + start_offset, 1)
RequestedDays(analysis) ==
    Max(analysis.days + _get_time_period_offset(analysis.time_period), 1)

\* the fishing handler from the weather data on
Forecast(user_id, message, context, weather_data, sliced) ==
    IF weather_data = NoData
    THEN Replied(user_id, message, context, "no_data")
    ELSE IF sliced = NoData \/ sliced.forecast = <<>>
    THEN Replied(user_id, message, context, "no_forecast_for_date")
    ELSE Replied(user_id, [message EXCEPT !.forecast = sliced.forecast],
                 _store_weather_context(sliced, NoData), "fishing_forecast")

\* the fishing handler from the look at the cache on: fresh is what
\* get_weather_forecast returns if it is called
WithWeather(user_id, message, context, analysis, cached_weather, fresh) ==
    IF cached_weather # NoData
    THEN Forecast(user_id,
                  [message EXCEPT !.cached = TRUE,
                                  !.stamp = context.last_weather_timestamp],
                  context, cached_weather,
                  _slice_weather_forecast(cached_weather, message.offset, analysis.days))
    ELSE Forecast(user_id, [message EXCEPT !.fetched = message.place],
                  context, fresh,
                  _slice_weather_forecast(fresh, message.offset, analysis.days))

\* _handle_fishing_request
_handle_fishing_request(user_id, message, context, analysis) ==
    IF NoPlace(message.place)
    THEN Replied(user_id, message, context, "ask_place")
    ELSE \E fresh \in get_weather_forecast(message.place, RequestedDays(analysis)) :
            WithWeather(user_id, message, context, analysis,
                        _get_cached_weather(context, message.place, RequestedDays(analysis)),
                        fresh)

\* the methods of LocationResolver and of IntelligentWeatherService
LocationResolverMethods ==
    { "resolve_location", "_find_best_match", "_clean_location_query",
      "_select_best_match", "_format_location_result", "_get_location_type",
      "get_coordinates", "resolve_with_country_hints" }

WeatherServiceMethods ==
    { "get_weather_forecast", "_try_direct_city_query", "_format_weather_response" }

\* the methods _handle_weather_request calls on the two objects before it
\* has weather data
WeatherRequestCalls ==
    { "_clean_location_query", "_convert_to_nominative", "resolve_location_for_user" }

WeatherServiceCalls == { "get_weather_forecast_by_coords", "get_weather_forecast" }

\* invalid_words of _handle_weather_request
invalid_words ==
    { <<"n","a">>, <<"v">>, <<"d","l","ya">>, <<"p","o">>, <<"u">>, <<"s">>, <<"z","a">>,
      <<"k","a","k","o","j">>, <<"k","a","k","a","ya">>, <<"eh","t","i">>, <<"d","n","i">> }

\* the weather handler from the weather data on
Weather(user_id, message, context, weather_data, sliced) ==
    IF weather_data = NoData
    THEN Replied(user_id, message, context, "not_found")
    ELSE IF sliced = NoData \/ sliced.forecast = <<>>
    THEN Replied(user_id, message, context, "no_forecast_for_date")
    ELSE Replied(user_id, [message EXCEPT !.forecast = sliced.forecast],
                 _store_weather_context(sliced, weather_data), "weather_forecast")

\* _handle_weather_request: an invalid word is replaced by the coroutine of
\* _extract_city_from_query, which is not awaited, and len() of it raises;
\* a call of a method the object does not have raises
_handle_weather_request(user_id, message, context, analysis) ==
    IF Lower(analysis.location) \in invalid_words
    THEN Raised(message, "TypeError")
    ELSE IF Len(analysis.location) < 2
    THEN Replied(user_id, message, context, "no_city")
    ELSE IF ~ (WeatherRequestCalls \subseteq LocationResolverMethods)
    THEN Raised(message, "AttributeError")
    ELSE \E fresh \in get_weather_forecast(message.place, RequestedDays(analysis)) :
            IF fresh # NoData /\ ~ (WeatherServiceCalls \subseteq WeatherServiceMethods)
            THEN Raised([message EXCEPT !.fetched = message.place], "AttributeError")
            ELSE Weather(user_id, [message EXCEPT !.fetched = message.place],
                         context, fresh,
                         _slice_weather_forecast(fresh, message.offset, analysis.days))

\* the handler of the route
Handle(route, user_id, message, context, analysis) ==
    CASE route = "fishing" ->
            _handle_fishing_request(user_id,
                [message EXCEPT !.place = FishingLocation(context, analysis)],
                context, analysis)
      [] route = "weather" ->
            _handle_weather_request(user_id,
                [message EXCEPT !.place = analysis.location], context, analysis)
      [] route = "ai_chat" -> Replied(user_id, message, context, "ai_chat")
      [] OTHER -> Replied(user_id, message, context, "help")

\* handle_message: the user sends the message m
handle_message(user_id, m) ==
    /\ Handle(Routes(m.analysis, Strip(m.message_text, Whitespace))[1], user_id,
              Received(user_id, m, Routes(m.analysis, Strip(m.message_text, Whitespace))),
              user_context[user_id], m.analysis)
    /\ UNCHANGED now
    /\ UNCHANGED <<pc, text, nfrag, result>>
    /\ UNCHANGED <<api, rpc, location_query, hints, requests, response, resolved>>
    /\ UNCHANGED <<morphVars, geoipVars>>

\* start_command: the context of the user is deleted
start_command(user_id) ==
    /\ user_context[user_id] # NoContext
    /\ user_context' = [user_context EXCEPT ![user_id] = NoContext]
    /\ handled' = [NoMessage EXCEPT !.user = user_id, !.routes = <<"start">>,
                                    !.reply = "welcome", !.at = now]
    /\ UNCHANGED now
    /\ UNCHANGED <<pc, text, nfrag, result>>
    /\ UNCHANGED <<api, rpc, location_query, hints, requests, response, resolved>>
    /\ UNCHANGED <<morphVars, geoipVars>>

\* time passes between two messages
Tick(minutes) ==
    /\ now + minutes <= MaxNow
    /\ now' = now + minutes
    /\ UNCHANGED <<user_context, handled>>
    /\ UNCHANGED <<pc, text, nfrag, result>>
    /\ UNCHANGED <<api, rpc, location_query, hints, requests, response, resolved>>
    /\ UNCHANGED <<morphVars, geoipVars>>

BotNext ==
    \/ \E u \in Users : \E m \in Messages : handle_message(u, m)
    \/ \E u \in Users : start_command(u)
    \/ \E d \in Delays : Tick(d)

BotSpec == Init /\ [][BotNext]_vars

-----------------------------------------------------------------------------
(* Claims C21, C22, C27, C28 and C30: the message handlers.                *)

\* a message has been handled, and it is the last thing that happened but
\* the passing of time
Handled == handled.message # <<>>

\* the analysis of the message handled last
AnalysisOf(message_text) ==
    (CHOOSE m \in Messages : m.message_text = message_text).analysis

\* C21: when the analysis of a message yields no location, the bot asks the
\* user to name the place, and it fetches no weather and takes no forecast
\* for a location the message does not name, whatever the user asked before
C21_NoSilentDefault ==
    (Handled /\ NoPlace(handled.named)) =>
        /\ handled.fetched = None
        /\ ~ handled.cached
        /\ handled.forecast = <<>>
        /\ handled.routes = <<"fishing">> => handled.reply = "ask_place"

\* C22: _get_cached_weather never returns a snapshot stored more than 30
\* minutes before the request, and the fishing handler fetches the weather
\* when the snapshot of the user is older
C22_FreshEnough ==
    /\ [](handled.cached => handled.at - handled.stamp <= MaxAge)
    /\ [][ (/\ now' = now
            /\ handled'.routes = <<"fishing">>
            /\ ~ NoPlace(handled'.place)
            /\ user_context[handled'.user] # NoContext
            /\ now - user_context[handled'.user].last_weather_timestamp > MaxAge)
           => /\ ~ handled'.cached
              /\ handled'.fetched = handled'.place ]_vars

\* a snapshot stored 30 minutes before the request has been reused
C22_Witness ==
    /\ handled.cached
    /\ handled.at - handled.stamp = MaxAge
    /\ handled.reply = "fishing_forecast"

\* C27: the forecast handed to the forecaster starts at the requested day,
\* the day of the request plus 0, 1 or 2, and holds at most the requested
\* number of days, with fresh weather data and with data of the cache
C27_RequestedDays ==
    handled.reply = "fishing_forecast" =>
        /\ handled.forecast[1] = (handled.at \div DayMinutes) + handled.offset
        /\ Len(handled.forecast) <= Max(handled.days, 1)

\* the handler's own replies to a weather request
WeatherReplies == {"weather_forecast", "not_found", "no_forecast_for_date"}

\* C28: a message with intent weather and a usable location ends in one of
\* the replies of the weather handler, and in no exception that reaches the
\* global error handler
C28_WeatherReplies ==
    (/\ handled.routes = <<"weather">>
     /\ Len(handled.named) >= 2
     /\ Lower(handled.named) \notin invalid_words) =>
        /\ handled.raised = "none"
        /\ handled.reply \in WeatherReplies

\* a text contains '?'
HasQuestionMark(message_text) == Contains(message_text, <<"?">>)

\* the outcome the claim gives a message
ClaimedRoute(analysis, message_text) ==
    IF analysis.intent = "fishing_forecast" THEN "fishing"
    ELSE IF analysis.intent = "weather" /\ analysis.location # None
    THEN "weather"
    ELSE IF HasQuestionMark(message_text) \/ analysis.intent = "general_question"
    THEN "ai_chat"
    ELSE "help"

\* C30: every message goes to exactly one of the four outcomes, in the
\* priority fishing handler, weather handler, AI chat, help text, and every
\* message gets a reply
C30_OneRoute ==
    Handled =>
        /\ handled.routes = <<ClaimedRoute(AnalysisOf(handled.message), handled.message)>>
        /\ handled.reply # "none"

\* a fishing request with a question mark has gone to the fishing handler
C30_Witness ==
    /\ handled.message = <<"k","l","e","v"," ","v"," ","L","i","d","e","?">>
    /\ handled.routes = <<"fishing">>
    /\ handled.reply = "fishing_forecast"

=============================================================================
